---- MODULE Spec2Model ----
(***************************************************************************)
(* pypodcast: the feed driver (main, process_feeds), the per-entry task    *)
(* (process_entry), the per-fingerprint cache (open_cache) and the MP3 tag *)
(* synthesizer (fix_tags), the provider lookups and the tagging.py driver, *)
(* as state machines.                                                      *)
(*                                                                         *)
(* Spec      drives main() MaxRuns times over unchanged feeds, with the    *)
(*           orchestrating thread and the single pool worker interleaved.  *)
(* SpecTags  runs one process_entry from the parsed buffer to the commit,  *)
(*           with fix_tags applied to a loaded tag map and a provider.     *)
(* SpecCalls makes one call of Provider.__getitem__, Nightvale._num_title  *)
(*           or the cache file name.                                       *)
(* SpecDriver runs the driver loop of tagging.py.                          *)
(***************************************************************************)
EXTENDS Integers, Sequences, FiniteSets, TLC

VARIABLES
    feedfile,     \* feedfile['feed']: the configured feeds, in order (their hrefs)
    feeds,        \* what feedparser.parse returns for each href: its entries
    run,          \* which invocation of main() this is
    mainpc,       \* position of the orchestrating thread inside main()
    fi,           \* index of the feed process_feeds is at
    ei,           \* index of the entry process_feeds is at
    inv,          \* per thread: the process_entry frame it is executing
    queue,        \* tasks submitted to the pool and not yet started
    cache,        \* cache directory: file name -> stored document
    files,        \* data directory: destination path -> how much of it is written
    outcome,      \* how main() is ending: "ok", "interrupt", or an exception that
                  \* came out of process_feeds ("feed_exception") or out of the
                  \* process_entry call at line 54 ("entry_exception")
    interrupted,  \* a KeyboardInterrupt was delivered in this run
    calls,        \* per (feed, entry) position: process_entry invocations this run
    dls,          \* per position: audio download attempts this run
    submitted,    \* per position: tasks submitted to the pool this run
    fails,        \* per position: invocations that raised an Exception this run
    everFull,     \* destination paths that have been written in full at some time
    prevClean,    \* the previous run completed and no invocation in it raised
    tags,         \* fix_tags: the ID3 tag map of the MP3 (frame key -> frame)
    provider,     \* fix_tags: what each accessor of the metadata provider yields
    tpc,          \* fix_tags: "ready", then "done" or the exception it raised
    audiometa,    \* the type of what mutagen.File returned for the buffer
    blobs,        \* fix_tags: calls of dl_blob it has made
    call,         \* a single call of a function: its name and arguments
    ret,          \* what that call returned or raised; "pending" before it
    drv           \* tagging.py: the state of its driver loop

vars == <<feedfile, feeds, run, mainpc, fi, ei, inv, queue, cache, files, outcome,
          interrupted, calls, dls, submitted, fails, everFull, prevClean,
          tags, provider, tpc, audiometa, blobs, call, ret, drv>>

----------------------------------------------------------------------------
(* Bounds *)

MaxFeeds == 2
MaxEntries == 2
MaxRuns == 2

----------------------------------------------------------------------------
(* Feeds and entries *)

SeqsUpTo(S, n) == UNION {[1..k -> S] : k \in 0..n}

\* feed.href of the feeds the configuration can name
Hrefs == {<<"f1">>, <<"f2">>}

AudioMpeg == <<"audio/", "mpeg">>
AudioOgg == <<"audio/", "ogg">>
TextHtml == <<"text/", "html">>

Bit(type, href) == [type |-> type, href |-> href]

\* Entries as feedparser supplies them. An enclosure is also listed in links.
EntryOne ==
    [id |-> <<"e1">>,
     enclosures |-> <<Bit(AudioMpeg, "u1")>>,
     links |-> <<Bit(TextHtml, "page"), Bit(AudioMpeg, "u1")>>,
     content |-> <<>>]

EntryNone ==
    [id |-> <<"e2">>,
     enclosures |-> <<>>,
     links |-> <<Bit(TextHtml, "page")>>,
     content |-> <<>>]

EntryTwo ==
    [id |-> <<"e3">>,
     enclosures |-> <<Bit(AudioMpeg, "u1"), Bit(AudioOgg, "u2")>>,
     links |-> <<Bit(AudioMpeg, "u1"), Bit(AudioOgg, "u2")>>,
     content |-> <<>>]

EntryAlso ==
    [id |-> <<"e4">>,
     enclosures |-> <<Bit(AudioOgg, "u2")>>,
     links |-> <<Bit(AudioOgg, "u2"), Bit(TextHtml, "page")>>,
     content |-> <<>>]

Entries == {EntryOne, EntryNone, EntryTwo, EntryAlso}

\* What each feed publishes, oldest entry last; a fetch returns a prefix of it.
Published(href) ==
    IF href = <<"f1">> THEN <<EntryOne, EntryAlso, EntryTwo>>
                       ELSE <<EntryNone, EntryTwo, EntryOne>>

Snapshots(href) ==
    {[k \in 1..n |-> Published(href)[((k - 1) % Len(Published(href))) + 1]] :
        n \in 0..MaxEntries}

\* The (feed index, entry index) pairs process_feeds iterates over.
Positions ==
    UNION {{<<i, j>> : j \in DOMAIN feeds[feedfile[i]]} : i \in DOMAIN feedfile}

HrefAt(pos) == feedfile[pos[1]]
EntryAt(pos) == feeds[feedfile[pos[1]]][pos[2]]

----------------------------------------------------------------------------
(* open_cache *)

Missing == "missing"                 \* no cache file
EmptyDoc == "{}"                     \* the document {}
ProcessedDoc == "{processed: yes}"   \* the document {"processed": "yes"}

\* cache_key = f"{feed.href}#{entry.id}"
cache_key(href, id) == href \o <<"#">> \o id

\* get_cache_dir() / shake_128(ident).hexdigest(32): a 256-bit digest of the key
CacheFile(ident) == <<"shake_128">> \o ident

CacheFiles == {CacheFile(cache_key(h, e.id)) : h \in Hrefs, e \in Entries}

\* json.loads(filename.read_text()), or {} when the file does not exist
open_cache_enter(store, ident) ==
    IF store[CacheFile(ident)] = Missing THEN EmptyDoc ELSE store[CacheFile(ident)]

\* A mutant: the write-back placed in a finally clause.
open_cache_exit_finally(store, ident, doc, raised) ==
    [store EXCEPT ![CacheFile(ident)] = doc]

\* A mutant: the document is never written back.
open_cache_exit_nowrite(store, ident, doc, raised) == store

\* The code after the yield runs only when the with body ends without raising.
open_cache_exit(store, ident, doc, raised) ==
    IF raised THEN store ELSE [store EXCEPT ![CacheFile(ident)] = doc]

\* A mutant: the no-op cache that always reports "not processed".
Truthy_stub(doc) == FALSE

\* `if cache:` - a dict is true when it is not empty
Truthy(doc) == doc # EmptyDoc

----------------------------------------------------------------------------
(* process_entry *)

StartsWithAudio(type) == Len(type) >= 1 /\ type[1] = "audio/"

Chain(entry) == entry.enclosures \o entry.links \o entry.content

\* A mutant: the candidates collected in a list, one for every occurrence.
AudioUrls_list(entry) ==
    {<<Chain(entry)[k].type, Chain(entry)[k].href, k>> :
        k \in {n \in DOMAIN Chain(entry) : StartsWithAudio(Chain(entry)[n].type)}}

\* urls = {(bit.type, bit.href) for bit in chain(...) if bit.type.startswith('audio/')}
AudioUrls(entry) ==
    {<<Chain(entry)[k].type, Chain(entry)[k].href>> :
        k \in {n \in DOMAIN Chain(entry) : StartsWithAudio(Chain(entry)[n].type)}}

\* A mutant: take the first audio-typed bit of the chain.
Unpack_first_wins(urls, entry) ==
    IF urls = {} THEN "ValueError"
    ELSE LET first == CHOOSE n \in DOMAIN Chain(entry) :
                        /\ StartsWithAudio(Chain(entry)[n].type)
                        /\ \A m \in 1..(n - 1) : ~StartsWithAudio(Chain(entry)[m].type)
         IN  Chain(entry)[first].href

\* (audio_type, audio_url), = urls : raises ValueError unless urls has one element
Unpack(urls, entry) ==
    IF Cardinality(urls) = 1 THEN (CHOOSE u \in urls : TRUE)[2] ELSE "ValueError"

\* Destination path of an entry: each entry of each feed formats to its own path.
DestOf(href, entry) == <<"data">> \o href \o entry.id

Dests == {DestOf(h, e) : h \in Hrefs, e \in Entries}

\* A mutant: the decorator lets the exception through.
catch_errors_reraise(exc) == exc

\* catch_errors around a plain function: an Exception is printed and None returned;
\* anything else (KeyboardInterrupt) propagates.
catch_errors(exc) == IF exc = "Exception" THEN "none" ELSE exc

\* catch_errors around the generator function process_feeds: func(*p, **kw) only
\* creates the generator, so the try block is left before the body runs and what
\* the body raises reaches whoever iterates it.
catch_errors_generator(exc) == exc

\* A mutant: the pool is left without waiting for its tasks.
PoolExitWaits_nowait == FALSE

\* ThreadPoolExecutor.__exit__ calls shutdown(wait=True)
PoolExitWaits == TRUE

Threads == {"main", "worker"}

Idle == [pc |-> "idle", pos |-> <<0, 0>>, doc |-> EmptyDoc]

Drained == queue = <<>> /\ inv["worker"].pc = "idle"

KeyOf(pos) == cache_key(HrefAt(pos), EntryAt(pos).id)
DestAt(pos) == DestOf(HrefAt(pos), EntryAt(pos))

----------------------------------------------------------------------------
InitRun ==
    /\ feedfile \in SeqsUpTo(Hrefs, MaxFeeds)
    /\ feeds \in [Hrefs -> UNION {Snapshots(h) : h \in Hrefs}]
    /\ \A h \in Hrefs : feeds[h] \in Snapshots(h)
    /\ \A h \in Hrefs : (\A i \in DOMAIN feedfile : feedfile[i] # h) => feeds[h] = <<>>
    /\ run = 1
    /\ mainpc = "open"
    /\ fi = 0
    /\ ei = 0
    /\ inv = [t \in Threads |-> Idle]
    /\ queue = <<>>
    /\ cache = [f \in CacheFiles |-> Missing]
    /\ files = [d \in Dests |-> "none"]
    /\ outcome = "ok"
    /\ interrupted = FALSE
    /\ calls = [p \in Positions |-> 0]
    /\ dls = [p \in Positions |-> 0]
    /\ submitted = [p \in Positions |-> 0]
    /\ fails = [p \in Positions |-> 0]
    /\ everFull = {}
    /\ prevClean = FALSE

tagvars == <<tags, provider, tpc, audiometa, blobs>>

\* No tag synthesis is in progress.
TagsOff == tags = <<>> /\ provider = <<>> /\ tpc = "off" /\ audiometa = "off" /\ blobs = 0

callvars == <<call, ret, drv>>

\* No single function call is being examined.
CallsOff == call = <<>> /\ ret = <<>> /\ drv = <<>>

Init == InitRun /\ TagsOff /\ CallsOff

config == <<feedfile, feeds, run, prevClean, tagvars, callvars>>
ghosts == <<calls, dls, submitted, fails, everFull>>

----------------------------------------------------------------------------
(* process_entry, one step of thread t at a time *)

Frame(t, pc, doc) == [inv EXCEPT ![t] = [pc |-> pc, pos |-> inv[t].pos, doc |-> doc]]

\* The frame of thread t leaves process_entry through catch_errors; exc is what
\* the body raised ("none" when it returned).
Leave(t, exc) ==
    /\ inv' = [inv EXCEPT ![t] = Idle]
    /\ fails' = IF exc = "none" THEN fails ELSE [fails EXCEPT ![inv[t].pos] = @ + 1]
    /\ IF t = "main"
       THEN IF catch_errors(exc) = "none"
            THEN mainpc' = "submit" /\ outcome' = outcome
            ELSE mainpc' = "unwind" /\ outcome' = "entry_exception"
       ELSE UNCHANGED <<mainpc, outcome>>

\* An exception raised inside the with open_cache(...) body.
Raise(t) ==
    /\ cache' = open_cache_exit(cache, KeyOf(inv[t].pos), inv[t].doc, TRUE)
    /\ Leave(t, "Exception")

\* lines 64-80: compute the key and load the document (which may raise); on a
\* hit return from inside the with block, the context manager writing the
\* document back; otherwise collect the audio-typed pairs and unpack the only one
OpenCache(t) ==
    /\ inv[t].pc = "open_cache"
    /\ \E ok \in BOOLEAN :
        IF ~ok
        THEN cache' = cache /\ Leave(t, "Exception")
        ELSE LET doc == open_cache_enter(cache, KeyOf(inv[t].pos))
                 entry == EntryAt(inv[t].pos)
             IN  IF Truthy(doc)
                 THEN /\ cache' = open_cache_exit(cache, KeyOf(inv[t].pos), doc, FALSE)
                      /\ Leave(t, "none")
                 ELSE IF Unpack(AudioUrls(entry), entry) = "ValueError"
                      THEN /\ cache' = open_cache_exit(cache, KeyOf(inv[t].pos), doc, TRUE)
                           /\ Leave(t, "Exception")
                      ELSE /\ inv' = Frame(t, "download", doc)
                           /\ UNCHANGED <<mainpc, outcome, fails, cache>>
    /\ UNCHANGED <<config, fi, ei, queue, files, interrupted, calls, dls, submitted,
                   everFull>>

\* lines 83-90: GET the audio url into the spooled buffer
Download(t) ==
    /\ inv[t].pc = "download"
    /\ dls' = [dls EXCEPT ![inv[t].pos] = @ + 1]
    /\ \E ok \in BOOLEAN :
        IF ok
        THEN /\ inv' = Frame(t, "transform", inv[t].doc)
             /\ UNCHANGED <<mainpc, outcome, fails, cache>>
        ELSE Raise(t)
    /\ UNCHANGED <<config, fi, ei, queue, files, interrupted, calls, submitted,
                   everFull>>

\* lines 93-109 when they end with exc ("none": the destination is computed)
TransformTo(t, exc) ==
    /\ inv[t].pc = "transform"
    /\ IF exc = "none"
       THEN /\ inv' = Frame(t, "write", inv[t].doc)
            /\ UNCHANGED <<mainpc, outcome, fails, cache>>
       ELSE Raise(t)
    /\ UNCHANGED <<fi, ei, queue, files, interrupted, calls, dls, submitted, everFull>>

\* lines 93-109: parse, provider, fix_tags, save, destination path - all on the
\* private buffer; any of them may raise
Transform(t) ==
    /\ \E exc \in {"none", "Exception"} : TransformTo(t, exc)
    /\ UNCHANGED config

\* lines 110-113: mkdir, then write_bytes opens (truncates) the destination
WriteBegin(t) ==
    /\ inv[t].pc = "write"
    /\ \E ok \in BOOLEAN :
        IF ok
        THEN /\ files' = [files EXCEPT ![DestAt(inv[t].pos)] = "partial"]
             /\ inv' = Frame(t, "writing", inv[t].doc)
             /\ UNCHANGED <<mainpc, outcome, fails, cache>>
        ELSE Raise(t) /\ files' = files
    /\ UNCHANGED <<config, fi, ei, queue, interrupted, calls, dls, submitted,
                   everFull>>

\* line 113: write_bytes writes the whole buffer, or raises part-way
WriteEnd(t) ==
    /\ inv[t].pc = "writing"
    /\ \E ok \in BOOLEAN :
        IF ok
        THEN /\ files' = [files EXCEPT ![DestAt(inv[t].pos)] = "full"]
             /\ everFull' = everFull \cup {DestAt(inv[t].pos)}
             /\ inv' = Frame(t, "commit", inv[t].doc)
             /\ UNCHANGED <<mainpc, outcome, fails, cache>>
        ELSE Raise(t) /\ UNCHANGED <<files, everFull>>
    /\ UNCHANGED <<config, fi, ei, queue, interrupted, calls, dls, submitted>>

\* line 115 and the end of the with block: mark the document, write it back
Commit(t) ==
    /\ inv[t].pc = "commit"
    /\ \E ok \in BOOLEAN :
        IF ok
        THEN /\ cache' = open_cache_exit(cache, KeyOf(inv[t].pos), ProcessedDoc, FALSE)
             /\ Leave(t, "none")
        ELSE /\ cache' = cache
             /\ Leave(t, "Exception")
    /\ UNCHANGED <<config, fi, ei, queue, files, interrupted, calls, dls, submitted,
                   everFull>>

----------------------------------------------------------------------------
(* main and process_feeds, on the orchestrating thread *)

\* What an exception raised in the body of process_feeds does to main.
FeedsRaise ==
    IF catch_errors_generator("Exception") = "none"
    THEN mainpc' = "wait" /\ outcome' = outcome
    ELSE mainpc' = "unwind" /\ outcome' = "feed_exception"

\* line 47: open_feedfile() and feedfile['feed']
OpenFeedfile ==
    /\ mainpc = "open"
    /\ \E ok \in BOOLEAN :
        IF ok THEN mainpc' = "feed" /\ fi' = 1 /\ outcome' = outcome
              ELSE FeedsRaise /\ fi' = fi
    /\ UNCHANGED <<config, ei, inv, queue, cache, files, interrupted, ghosts>>

\* lines 48-50: the next feedconfig; feedparser.parse(feedconfig['url'])
FetchFeed ==
    /\ mainpc = "feed"
    /\ fi <= Len(feedfile)
    /\ \E ok \in BOOLEAN :
        IF ok THEN mainpc' = "entry" /\ ei' = 1 /\ outcome' = outcome
              ELSE FeedsRaise /\ ei' = ei
    /\ UNCHANGED <<config, fi, inv, queue, cache, files, interrupted, ghosts>>

\* lines 47-48: the feed loop ends; open_feedfile writes the document back
FeedsDone ==
    /\ mainpc = "feed"
    /\ fi > Len(feedfile)
    /\ \E ok \in BOOLEAN :
        IF ok THEN mainpc' = "wait" /\ outcome' = outcome
              ELSE FeedsRaise
    /\ UNCHANGED <<config, fi, ei, inv, queue, cache, files, interrupted, ghosts>>

\* A mutant: the task is submitted before the direct call is made.
CallEntry_submit_first ==
    /\ mainpc = "entry"
    /\ ei <= Len(feeds[feedfile[fi]])
    /\ queue' = Append(queue, <<fi, ei>>)
    /\ inv' = [inv EXCEPT !["main"] =
                  [pc |-> "open_cache", pos |-> <<fi, ei>>, doc |-> EmptyDoc]]
    /\ calls' = [calls EXCEPT ![<<fi, ei>>] = @ + 1]
    /\ mainpc' = "call"
    /\ UNCHANGED <<config, fi, ei, cache, files, outcome, interrupted, dls,
                   submitted, fails, everFull>>

\* lines 53-54: the next entry; process_entry is called on this thread
CallEntry ==
    /\ mainpc = "entry"
    /\ ei <= Len(feeds[feedfile[fi]])
    /\ inv' = [inv EXCEPT !["main"] =
                  [pc |-> "open_cache", pos |-> <<fi, ei>>, doc |-> EmptyDoc]]
    /\ calls' = [calls EXCEPT ![<<fi, ei>>] = @ + 1]
    /\ mainpc' = "call"
    /\ UNCHANGED <<config, fi, ei, queue, cache, files, outcome, interrupted, dls,
                   submitted, fails, everFull>>

\* line 53: the entries of this feed are exhausted
EntriesDone ==
    /\ mainpc = "entry"
    /\ ei > Len(feeds[feedfile[fi]])
    /\ fi' = fi + 1
    /\ mainpc' = "feed"
    /\ UNCHANGED <<config, ei, inv, queue, cache, files, outcome, interrupted, ghosts>>

\* line 55: pool.submit(process_entry, feedconfig, feed, entry)
Submit ==
    /\ mainpc = "submit"
    /\ queue' = Append(queue, <<fi, ei>>)
    /\ submitted' = [submitted EXCEPT ![<<fi, ei>>] = @ + 1]
    /\ ei' = ei + 1
    /\ mainpc' = "entry"
    /\ UNCHANGED <<config, fi, inv, cache, files, outcome, interrupted, calls, dls,
                   fails, everFull>>

\* The pool's only worker (max_workers=1) takes the oldest pending task.
WorkerTake ==
    /\ inv["worker"].pc = "idle"
    /\ queue # <<>>
    /\ inv' = [inv EXCEPT !["worker"] =
                  [pc |-> "open_cache", pos |-> Head(queue), doc |-> EmptyDoc]]
    /\ queue' = Tail(queue)
    /\ calls' = [calls EXCEPT ![Head(queue)] = @ + 1]
    /\ UNCHANGED <<config, mainpc, fi, ei, cache, files, outcome, interrupted, dls,
                   submitted, fails, everFull>>

\* line 239: concurrent.futures.wait(futs)
WaitFutures ==
    /\ mainpc = "wait"
    /\ Drained
    /\ mainpc' = "exit"
    /\ UNCHANGED <<config, fi, ei, inv, queue, cache, files, outcome, interrupted,
                   ghosts>>

\* lines 237, 240-241: the with block is left, normally or by an exception
ExitPool ==
    /\ mainpc \in {"exit", "unwind"}
    /\ PoolExitWaits => Drained
    /\ mainpc' = "finished"
    /\ UNCHANGED <<config, fi, ei, inv, queue, cache, files, outcome, interrupted,
                   ghosts>>

\* A KeyboardInterrupt reaches the orchestrating thread while it executes the
\* body of the with block (lines 238-239); at most one per run.
Interrupt ==
    /\ ~interrupted
    /\ mainpc \in {"open", "feed", "entry", "call", "submit", "wait"}
    /\ catch_errors("KeyboardInterrupt") # "none"
    /\ catch_errors_generator("KeyboardInterrupt") # "none"
    /\ interrupted' = TRUE
    /\ outcome' = "interrupt"
    /\ mainpc' = "unwind"
    /\ inv' = [inv EXCEPT !["main"] = Idle]
    /\ cache' = IF inv["main"].pc \in {"idle", "open_cache"}
                THEN cache
                ELSE open_cache_exit(cache, KeyOf(inv["main"].pos), inv["main"].doc, TRUE)
    /\ UNCHANGED <<config, fi, ei, queue, files, ghosts>>

\* main() is run again against the same feeds, cache and data directory.
StartRun ==
    /\ mainpc = "finished"
    /\ Drained
    /\ run < MaxRuns
    /\ run' = run + 1
    /\ prevClean' = (outcome = "ok" /\ \A p \in Positions : fails[p] = 0)
    /\ mainpc' = "open"
    /\ fi' = 0
    /\ ei' = 0
    /\ outcome' = "ok"
    /\ interrupted' = FALSE
    /\ calls' = [p \in Positions |-> 0]
    /\ dls' = [p \in Positions |-> 0]
    /\ submitted' = [p \in Positions |-> 0]
    /\ fails' = [p \in Positions |-> 0]
    /\ UNCHANGED <<feedfile, feeds, inv, queue, cache, files, everFull, tagvars, callvars>>

Next ==
    \/ OpenFeedfile
    \/ FetchFeed
    \/ FeedsDone
    \/ CallEntry
    \/ EntriesDone
    \/ Submit
    \/ WorkerTake
    \/ WaitFutures
    \/ ExitPool
    \/ Interrupt
    \/ StartRun
    \/ \E t \in Threads : OpenCache(t)
    \/ \E t \in Threads : Download(t)
    \/ \E t \in Threads : Transform(t)
    \/ \E t \in Threads : WriteBegin(t)
    \/ \E t \in Threads : WriteEnd(t)
    \/ \E t \in Threads : Commit(t)

Spec == Init /\ [][Next]_vars

----------------------------------------------------------------------------
(* Properties of the orchestration *)

RecordOf(href, entry) == cache[CacheFile(cache_key(href, entry.id))]
RecordAt(pos) == RecordOf(HrefAt(pos), EntryAt(pos))
Finished == mainpc = "finished"
After(p, q) == q[1] > p[1] \/ (q[1] = p[1] /\ q[2] > p[2])

\* C1: a cache record for a fingerprint is in the store only if the entry's
\* destination has been written in full, and a step in which a process_entry
\* invocation raises leaves the cache store as it was.
C1_RecordOnlyAfterFullWrite ==
    /\ [](\A h \in Hrefs, e \in Entries :
             RecordOf(h, e) # Missing => DestOf(h, e) \in everFull)
    /\ [][(\E p \in Positions : run' = run /\ fails'[p] > fails[p]) => cache' = cache]_vars

C1_Witness ==
    \E p, q \in Positions :
        /\ fails[p] > 0 /\ dls[p] > 0 /\ RecordAt(p) = Missing
        /\ RecordAt(q) = ProcessedDoc

\* C2: a complete run in which every invocation succeeded is followed by a run
\* that downloads nothing, every invocation of it ending at the cache check,
\* and the data directory holds exactly one complete file for each entry of
\* the configured feeds.
C2_SecondRunDownloadsNothing ==
    (run >= 2 /\ prevClean) =>
        /\ \A p \in Positions : dls[p] = 0 /\ files[DestAt(p)] = "full"
        /\ \A d \in Dests : files[d] # "none" => \E p \in Positions : DestAt(p) = d
        /\ \A t \in Threads : inv[t].pc \in {"idle", "open_cache"}

C2_Witness ==
    /\ run = 2 /\ prevClean /\ Finished /\ outcome = "ok"
    /\ \E p, q \in Positions : DestAt(p) # DestAt(q)
    /\ \A p \in Positions : calls[p] = 2

\* C3: in a run, process_entry is invoked exactly once for every (feed, entry)
\* pair, as one task submitted to the pool.
C3_EachEntryInvokedOnce ==
    \A p \in Positions :
        /\ calls[p] <= 1
        /\ submitted[p] <= 1
        /\ (Finished /\ outcome = "ok") => (calls[p] = 1 /\ submitted[p] = 1)

\* C4: an Exception raised by a process_entry invocation never comes out of the
\* call, and a run that ends without a feed-level failure or an interrupt has
\* processed every entry of every feed, whatever invocations raised.
C4_EntryFailureIsolated ==
    /\ outcome # "entry_exception"
    /\ (Finished /\ outcome = "ok") =>
           \A p \in Positions : calls[p] >= 1 /\ submitted[p] = 1

C4_Witness ==
    /\ Finished /\ outcome = "ok"
    /\ \E p, q \in Positions :
        /\ After(p, q)
        /\ fails[p] = calls[p] /\ dls[p] > 0
        /\ fails[q] = 0 /\ RecordAt(q) = ProcessedDoc /\ dls[q] = 1

\* C5: a failure raised inside process_feeds never propagates to main, and the
\* remaining feeds are still driven.
C5_FeedFailureIsolated ==
    /\ outcome # "feed_exception"
    /\ (Finished /\ ~interrupted) => \A p \in Positions : calls[p] >= 1

\* C6: an entry with no audio-typed (type, href) pair, or with two or more
\* distinct ones, never gets past asset selection: nothing is downloaded for
\* it, its destination is never written and no cache record is stored for it.
C6_NoSingleAssetFailsAsUnit ==
    /\ \A p \in Positions :
          Cardinality(AudioUrls(EntryAt(p))) # 1 =>
              /\ dls[p] = 0
              /\ files[DestAt(p)] = "none"
              /\ RecordAt(p) = Missing
    /\ \A t \in Threads :
          (inv[t].pc # "idle" /\ Cardinality(AudioUrls(EntryAt(inv[t].pos))) # 1)
              => inv[t].pc = "open_cache"

C6_Witness ==
    \E p, q \in Positions :
        /\ AudioUrls(EntryAt(p)) = {} /\ fails[p] = 2
        /\ Cardinality(AudioUrls(EntryAt(q))) = 2 /\ fails[q] = 2

\* C8: nothing is retried inside a run: an entry with an invocation that raised
\* has had one invocation and at most one download attempt in that run.
C8_NoRetryWithinRun ==
    \A p \in Positions : fails[p] > 0 => (calls[p] <= 1 /\ dls[p] <= 1)

C10_CachedReturnHasNoEffect ==
    [][\A t \in Threads :
          (/\ inv[t].pc = "open_cache"
           /\ RecordAt(inv[t].pos) # Missing
           /\ inv'[t] # inv[t])
          => (inv'[t].pc = "idle" /\ cache' = cache /\ files' = files /\ dls' = dls)]_vars

C10_Witness ==
    /\ run = 2 /\ Finished /\ outcome = "ok"
    /\ \E p \in Positions :
        calls[p] = 2 /\ dls[p] = 0 /\ fails[p] = 0 /\ RecordAt(p) = ProcessedDoc

\* Every feed is configured once.
FeedsDistinct == \A i, j \in DOMAIN feedfile : i # j => feedfile[i] # feedfile[j]

DupOnly(entry) ==
    LET A == {n \in DOMAIN Chain(entry) : StartsWithAudio(Chain(entry)[n].type)}
    IN  /\ Cardinality(A) >= 2
        /\ \A m, n \in A : /\ Chain(entry)[m].type = Chain(entry)[n].type
                           /\ Chain(entry)[m].href = Chain(entry)[n].href

\* C19: an entry whose only audio-typed (type, href) pair occurs several times
\* has one candidate: the unpacking yields its URL, and the invocation goes on
\* to download instead of failing as ambiguous.
C19_RepeatedPairIsOneCandidate ==
    /\ \A q \in Positions :
          DupOnly(EntryAt(q)) =>
              /\ Cardinality(AudioUrls(EntryAt(q))) = 1
              /\ \E k \in DOMAIN Chain(EntryAt(q)) :
                    /\ StartsWithAudio(Chain(EntryAt(q))[k].type)
                    /\ Unpack(AudioUrls(EntryAt(q)), EntryAt(q)) = Chain(EntryAt(q))[k].href
    /\ \A t \in Threads :
          inv[t].pc \in {"download", "transform", "write", "writing", "commit"} =>
              Cardinality(AudioUrls(EntryAt(inv[t].pos))) = 1

C19_Witness ==
    \E q \in Positions :
        /\ DupOnly(EntryAt(q))
        /\ dls[q] = 1 /\ fails[q] = 0 /\ RecordAt(q) = ProcessedDoc

----------------------------------------------------------------------------
(* fix_tags for mutagen.mp3.MP3 *)

MaxPresent == 2     \* provider fields that are not None
MaxStale == 2       \* frames already in the loaded tag map

\* A string is the sequence of its parts. A frame key such as 'TRCK' is
\* <<"TRCK">>, 'TRCK:' is <<"TRCK", ":">>, 'APIC:Cover' is <<"APIC", ":", "Cover">>.
Key(id) == <<id>>
KeyColon(id) == <<id, ":">>
KeyDesc(id, desc) == <<id, ":", desc>>

ID3Frame(id, text) == [id |-> id, text |-> text]

\* The canonical fields, in the order fix_tags reads them.
Fields ==
    <<"episode_art", "episode_number", "episode_url", "episode_title",
      "episode_subtitle", "hosts", "guests", "directors", "editors", "producers",
      "publisher", "summary", "album", "season", "category", "copyright",
      "pub_date", "episode_id">>

FieldSet == {Fields[i] : i \in DOMAIN Fields}

\* The frame types each field is written to.
TypesOf(field) ==
    CASE field = "episode_art" -> {"APIC"}
      [] field = "episode_number" -> {"TRCK"}
      [] field = "episode_url" -> {"WOAR"}
      [] field = "episode_title" -> {"TIT2"}
      [] field = "episode_subtitle" -> {"TIT3"}
      [] field = "hosts" -> {"TPE1"}
      [] field = "guests" -> {"TPE2"}
      [] field = "directors" -> {"TPE3"}
      [] field = "editors" -> {"TPE4"}
      [] field = "producers" -> {"TPRO"}
      [] field = "publisher" -> {"TPUB"}
      [] field = "summary" -> {"COMM", "TDES"}
      [] field = "album" -> {"TALB"}
      [] field = "season" -> {"TPOS"}
      [] field = "category" -> {"TCAT", "TCON"}
      [] field = "copyright" -> {"TCOP"}
      [] field = "pub_date" -> {"TDOR", "TDRC"}
      [] field = "episode_id" -> {"TGID"}

FrameIds == UNION {TypesOf(f) : f \in FieldSet} \cup {"PCST"}

\* Keys under which mutagen files a frame it loads (the frame's HashKey): the
\* frame id alone, except APIC (id:desc), COMM (id:desc:lang) and WOAR (id:url).
LoadedKeys(id) ==
    CASE id = "APIC" -> {KeyColon("APIC"), KeyDesc("APIC", "Cover"), KeyDesc("APIC", "Track")}
      [] id = "COMM" -> {<<"COMM", ":", "Summary", ":", "eng">>, <<"COMM", ":", ":", "eng">>,
                         <<"COMM", ":", "iTunNORM", ":", "eng">>}
      [] id = "WOAR" -> {KeyDesc("WOAR", "http://old"), KeyDesc("WOAR", "http://older"),
                         KeyDesc("WOAR", "http://oldest")}
      [] OTHER -> {Key(id)}

Stale == <<"stale">>

\* Values a provider accessor can yield.
None == [kind |-> "none"]
Raises == [kind |-> "raise"]
PyStr(v) == [kind |-> "str", v |-> v]
PyList(v) == [kind |-> "list", v |-> v]
PyInt(v) == [kind |-> "int", v |-> v]
PyBytes(v) == [kind |-> "bytes", v |-> v]
\* An arrow.Arrow: a year, the part of that year the instant falls in
\* ("first" hours, "mid", "last" hours) and the sign of its UTC offset.
Date(year, part, off) == [kind |-> "date", year |-> year, part |-> part, off |-> off]

ValuesOf(field) ==
    {None, Raises} \cup
    CASE field = "episode_art" -> {PyStr(<<"http://art">>), PyBytes(<<"png-bytes">>), PyStr(<<>>)}
      [] field = "episode_number" -> {PyInt(0), PyInt(7), PyInt(42)}
      [] field \in {"hosts", "guests", "directors", "editors", "producers", "category"} ->
            {PyStr(<<"new">>), PyList(<<<<"a">>, <<"b">>>>), PyList(<<>>)}
      [] field = "pub_date" ->
            {Date(2020, "mid", 0), Date(2020, "last", -1), Date(2021, "first", 1),
             PyStr(<<"2020-01-01">>)}
      [] OTHER -> {PyStr(<<"new">>), PyStr(<<>>)}

\* Truth value of a Python object
Truth(val) ==
    CASE val.kind = "none" -> FALSE
      [] val.kind = "int" -> val.v # 0
      [] val.kind = "date" -> TRUE
      [] OTHER -> val.v # <<>>

DigitChars == <<"0", "1", "2", "3", "4", "5", "6", "7", "8", "9">>

RECURSIVE str(_)
\* str(n) for an int n >= 0
str(n) == IF n < 10 THEN <<DigitChars[n + 1]>> ELSE str(n \div 10) \o <<DigitChars[(n % 10) + 1]>>

RECURSIVE JoinComma(_)
\* ', '.join(list)
JoinComma(list) ==
    IF list = <<>> THEN <<>>
    ELSE IF Len(list) = 1 THEN list[1]
    ELSE list[1] \o <<", ">> \o JoinComma(Tail(list))

\* `if isinstance(x, list): x = ', '.join(x)`
Joined(val) == IF val.kind = "list" THEN JoinComma(val.v) ELSE val.v

\* pubdate.to('utc'): the same instant in UTC
ToUtc(d) ==
    IF d.off > 0 /\ d.part = "first" THEN Date(d.year - 1, "last", 0)
    ELSE IF d.off < 0 /\ d.part = "last" THEN Date(d.year + 1, "first", 0)
    ELSE Date(d.year, d.part, 0)

\* arrow's isoformat()
IsoFormat(d) == str(d.year) \o <<"-", d.part, IF d.off = 0 THEN "+00:00" ELSE "+-hh:mm">>

HasPrefix(k, id) == Len(k) >= 2 /\ k[1] = id /\ k[2] = ":"

Without(m, ks) == [k \in DOMAIN m \ ks |-> m[k]]

\* ID3Tags.delall(key): the frame filed under exactly that key when there is
\* one, otherwise every frame whose key starts with key + ':'
delall(m, id) ==
    IF Key(id) \in DOMAIN m THEN Without(m, {Key(id)})
    ELSE Without(m, {k \in DOMAIN m : HasPrefix(k, id)})

\* tags[key] = frame
setitem(m, key, frame) ==
    [k \in DOMAIN m \cup {key} |-> IF k = key THEN frame ELSE m[k]]

\* ID3Tags.getall(id), as the set of keys of the frames of that type
FramesOf(m, id) == {k \in DOMAIN m : m[k].id = id}

\* The state of a fix_tags call: the tag map so far and what has been raised.
St(m, exc) == [tags |-> m, exc |-> exc]

\* A mutant: a field whose accessor raises is treated as absent.
Stanza_swallow(st, val, then) ==
    IF st.exc # "none" THEN st
    ELSE IF val.kind = "raise" THEN st
    ELSE IF ~Truth(val) THEN st
    ELSE then

\* `if x := provider.field:` - the accessor raises, or yields a false value and
\* the stanza is skipped, or `then` is the state after the stanza's body
Stanza(st, val, then) ==
    IF st.exc # "none" THEN st
    ELSE IF val.kind = "raise" THEN St(st.tags, "NotImplementedError")
    ELSE IF ~Truth(val) THEN st
    ELSE then

\* delall(id) and then tags[id + ':'] = frame(text)
Rewrite(m, id, text) == setitem(delall(m, id), KeyColon(id), ID3Frame(id, text))

\* lines 146-155; dl is what dl_blob does for a URL: "ok" or the exception
ArtStanza(st, art, dl) ==
    Stanza(st, art,
        IF art.kind = "str"
        THEN IF dl = "ok"
             THEN St(setitem(st.tags, KeyColon("APIC"),
                        [id |-> "APIC", text |-> <<"bytes of">> \o art.v,
                         mime |-> "image/png", desc |-> "Track"]), "none")
             ELSE St(st.tags, dl)
        ELSE \* bytes: `mimetype` was never assigned
             St(st.tags, "UnboundLocalError"))

\* lines 156-158
NumberStanza(st, val) ==
    Stanza(st, val, St(Rewrite(st.tags, "TRCK", str(val.v)), "none"))

\* lines 159-167, 193-195, 205-210, 221-223: one text or url frame
TextStanza(st, val, id) ==
    Stanza(st, val, St(Rewrite(st.tags, id, val.v), "none"))

\* lines 168-192: a frame of the joined names
JoinStanza(st, val, id) ==
    Stanza(st, val, St(Rewrite(st.tags, id, Joined(val)), "none"))

\* lines 196-204
SummaryStanza(st, val) ==
    Stanza(st, val,
        St(setitem(setitem(delall(delall(st.tags, "COMM"), "TDES"),
                           KeyColon("COMM"), ID3Frame("COMM", val.v)),
                   KeyColon("TDES"), ID3Frame("TDES", val.v)), "none"))

\* A mutant: category treated like every other field, with no default genre.
CategoryStanza_nodefault(st, val) ==
    Stanza(st, val,
        St(setitem(setitem(delall(delall(st.tags, "TCAT"), "TCON"),
                           KeyColon("TCAT"), ID3Frame("TCAT", Joined(val))),
                   KeyColon("TCON"), ID3Frame("TCON", Joined(val) \o <<", Podcast">>)), "none"))

\* lines 211-220
CategoryStanza(st, val) ==
    IF st.exc # "none" THEN st
    ELSE IF val.kind = "raise" THEN St(st.tags, "NotImplementedError")
    ELSE IF Truth(val)
    THEN St(setitem(setitem(delall(delall(st.tags, "TCAT"), "TCON"),
                            KeyColon("TCAT"), ID3Frame("TCAT", Joined(val))),
                    KeyColon("TCON"), ID3Frame("TCON", Joined(val) \o <<", Podcast">>)), "none")
    ELSE St(Rewrite(st.tags, "TCON", <<"Podcast">>), "none")

\* lines 224-229
PubDateStanza(st, val) ==
    Stanza(st, val,
        IF val.kind # "date" THEN St(st.tags, "AssertionError")
        ELSE St(setitem(setitem(delall(delall(st.tags, "TDOR"), "TDRC"),
                                KeyColon("TDOR"), ID3Frame("TDOR", IsoFormat(ToUtc(val)))),
                        KeyColon("TDRC"), ID3Frame("TDRC", str(ToUtc(val).year))), "none"))

\* lines 230-231
EpisodeIdStanza(st, val) ==
    Stanza(st, val, St(setitem(st.tags, KeyColon("TGID"), ID3Frame("TGID", val.v)), "none"))

\* fix_tags registered for mutagen.mp3.MP3 (lines 143-231)
fix_tags(m, p, dl) ==
    LET s0 == St(setitem(m, KeyColon("PCST"), ID3Frame("PCST", <<"1">>)), "none")
        s1 == ArtStanza(s0, p["episode_art"], dl)
        s2 == NumberStanza(s1, p["episode_number"])
        s3 == TextStanza(s2, p["episode_url"], "WOAR")
        s4 == TextStanza(s3, p["episode_title"], "TIT2")
        s5 == TextStanza(s4, p["episode_subtitle"], "TIT3")
        s6 == JoinStanza(s5, p["hosts"], "TPE1")
        s7 == JoinStanza(s6, p["guests"], "TPE2")
        s8 == JoinStanza(s7, p["directors"], "TPE3")
        s9 == JoinStanza(s8, p["editors"], "TPE4")
        s10 == JoinStanza(s9, p["producers"], "TPRO")
        s11 == TextStanza(s10, p["publisher"], "TPUB")
        s12 == SummaryStanza(s11, p["summary"])
        s13 == TextStanza(s12, p["album"], "TALB")
        s14 == TextStanza(s13, p["season"], "TPOS")
        s15 == CategoryStanza(s14, p["category"])
        s16 == TextStanza(s15, p["copyright"], "TCOP")
        s17 == PubDateStanza(s16, p["pub_date"])
    IN  EpisodeIdStanza(s17, p["episode_id"])

\* The default implementation of the singledispatch function (lines 138-140):
\* its signature is (tags, feed, entry), so a call with any other number of
\* arguments raises TypeError before the body's NotImplementedError
fix_tags_default(nargs) == IF nargs = 3 THEN "NotImplementedError" ELSE "TypeError"

\* The types mutagen.File can return an object of; None when it knows no format.
AudioTypes == {"MP3", "OggVorbis", "NoneType"}

\* A mutant: formats without an implementation are passed through untouched.
singledispatch_fallback(type, m, p, dl) ==
    IF type = "MP3" THEN fix_tags(m, p, dl) ELSE St(m, "none")

\* fix_tags(audiometa, metadata_provider), line 100: dispatch on the type of the
\* first argument; only mutagen.mp3.MP3 is registered
singledispatch(type, m, p, dl) ==
    IF type = "MP3" THEN fix_tags(m, p, dl) ELSE St(m, fix_tags_default(2))

\* Calls of dl_blob made by fix_tags: line 149 is the only one, reached for a
\* true episode_art that is a str
dl_blob_calls(type, p) ==
    IF type = "MP3" /\ p["episode_art"].kind = "str" /\ Truth(p["episode_art"]) THEN 1 ELSE 0

\* Provider.__getitem__ (providers lines 16-32). attrs: what getattr(self, key)
\* does for each attribute the object has - a property's value, or the exception
\* its getter raises; entry and feed map the keys they have to values.
Returned(v) == [exc |-> "none", val |-> v]
Raised(e) == [exc |-> e, val |-> <<>>]
AttrError == [kind |-> "attribute_error"]

getitem(attrs, entry, feed, key) ==
    IF key \in DOMAIN attrs /\ attrs[key].kind = "raise" THEN Raised("NotImplementedError")
    ELSE IF key \in DOMAIN attrs /\ attrs[key].kind # "attribute_error" THEN Returned(attrs[key])
    ELSE IF key \in DOMAIN entry THEN Returned(entry[key])
    ELSE IF key \in DOMAIN feed THEN Returned(feed[key])
    ELSE Raised("KeyError")

\* Destination patterns: placeholders naming canonical fields.
FilePatterns == {<<"episode_title">>, <<"album", "episode_number">>}

RECURSIVE GentleFormat(_, _)
\* gentle_format(config['filepattern'], metadata_provider): every placeholder is
\* looked up through the provider; "none" or the first exception a lookup raises
GentleFormat(pattern, p) ==
    IF pattern = <<>> THEN "none"
    ELSE LET r == getitem(p, <<>>, <<>>, Head(pattern))
         IN  IF r.exc # "none" THEN r.exc ELSE GentleFormat(Tail(pattern), p)

\* Providers with at most MaxPresent accessors that yield something but None.
Providers ==
    UNION {{[f \in FieldSet |-> IF f \in S THEN a[f] ELSE None] :
                a \in {b \in [S -> UNION {ValuesOf(f) : f \in S}] :
                          \A f \in S : b[f] \in ValuesOf(f) \ {None}}} :
           S \in {T \in SUBSET FieldSet : Cardinality(T) <= MaxPresent}}

\* Tag maps as loaded from a file: some frames of one type, filed under their
\* HashKeys.
LoadedMaps ==
    UNION {{[k \in K |-> ID3Frame(id, Stale)] :
                K \in {L \in SUBSET LoadedKeys(id) : Cardinality(L) <= MaxStale}} :
           id \in FrameIds}

\* process_entry on the orchestrating thread, for the only entry of the only
\* feed, with the audio downloaded (line 90): the buffer parses to an object of
\* type audiometa, carrying the frames in tags when it is an MP3.
InitTags ==
    /\ feedfile = <<<<"f1">>>>
    /\ feeds = [h \in Hrefs |-> IF h = <<"f1">> THEN <<EntryOne>> ELSE <<>>]
    /\ run = 1
    /\ mainpc = "call"
    /\ fi = 1
    /\ ei = 1
    /\ inv = [t \in Threads |->
                IF t = "main" THEN [pc |-> "transform", pos |-> <<1, 1>>, doc |-> EmptyDoc]
                              ELSE Idle]
    /\ queue = <<>>
    /\ cache = [f \in CacheFiles |-> Missing]
    /\ files = [d \in Dests |-> "none"]
    /\ outcome = "ok"
    /\ interrupted = FALSE
    /\ calls = [q \in Positions |-> 1]
    /\ dls = [q \in Positions |-> 1]
    /\ submitted = [q \in Positions |-> 0]
    /\ fails = [q \in Positions |-> 0]
    /\ everFull = {}
    /\ prevClean = FALSE
    /\ audiometa \in AudioTypes
    /\ tags \in (IF audiometa = "MP3" THEN LoadedMaps ELSE {<<>>})
    /\ provider \in Providers
    /\ tpc = "ready"
    /\ blobs = 0
    /\ CallsOff

\* lines 93-109 with their inputs: fix_tags(audiometa, metadata_provider) on
\* line 100, then save, gentle_format and _get_ext (rest: what save, _get_ext and
\* sanitize_filepath end with)
FixTags ==
    /\ tpc = "ready"
    /\ \E dl \in {"ok", "HTTPError", "AssertionError"}, pattern \in FilePatterns,
          rest \in {"none", "Exception"} :
        LET r == singledispatch(audiometa, tags, provider, dl)
            exc == IF r.exc # "none" THEN r.exc
                   ELSE IF GentleFormat(pattern, provider) # "none"
                        THEN GentleFormat(pattern, provider)
                        ELSE rest
        IN  /\ tags' = r.tags
            /\ tpc' = IF r.exc = "none" THEN "done" ELSE r.exc
            /\ blobs' = blobs + dl_blob_calls(audiometa, provider)
            /\ TransformTo("main", exc)
    /\ UNCHANGED <<feedfile, feeds, run, prevClean, provider, audiometa, callvars>>

NextTags ==
    \/ FixTags
    \/ WriteBegin("main")
    \/ WriteEnd("main")
    \/ Commit("main")

SpecTags == InitTags /\ [][NextTags]_vars

----------------------------------------------------------------------------
(* Properties of fix_tags *)

\* C7: after fix_tags, for every field the provider has a true value for
\* (episode_art and episode_id included), the tag map holds exactly one frame
\* of each of the field's frame types, and it is the new one.
C7_OneFramePerPresentField ==
    tpc = "done" =>
        \A f \in FieldSet :
            Truth(provider[f]) =>
                \A id \in TypesOf(f) :
                    /\ Cardinality(FramesOf(tags, id)) = 1
                    /\ \A k \in FramesOf(tags, id) : tags[k].text # Stale

\* C11: when the buffer parses to anything but a format with a registered
\* implementation (None included), fix_tags raises, and the invocation ends as
\* a failure with the destination never written and no cache record stored.
C11_UnregisteredFormatFails ==
    (audiometa \in AudioTypes \ {"MP3"} /\ tpc # "ready") =>
        /\ tpc \in {"TypeError", "NotImplementedError"}
        /\ inv["main"].pc = "idle"
        /\ \A q \in Positions :
            fails[q] = 1 /\ files[DestAt(q)] = "none" /\ RecordAt(q) = Missing

C11_Witness ==
    /\ audiometa = "NoneType" /\ tpc = "TypeError"
    /\ \A q \in Positions : fails[q] = 1 /\ RecordAt(q) = Missing


\* A field is absent when its accessor yields None or an empty value.
Absent(val) == val.kind # "raise" /\ ~Truth(val)

\* The frames of type id are the same, under the same keys, in m and in n.
SameFrames(m, n, id) ==
    /\ FramesOf(m, id) = FramesOf(n, id)
    /\ \A k \in FramesOf(m, id) : m[k] = n[k]

\* C12: fix_tags leaves the frames of the types of every absent field other
\* than category as they were; with category absent, a call that returns
\* leaves exactly one TCON frame, with the text "Podcast", and the TCAT frames
\* as they were.
C12_AbsentFieldsUntouched ==
    [][(tpc = "ready" /\ tpc' # "ready" /\ audiometa = "MP3") =>
          /\ \A f \in FieldSet \ {"category"} :
                Absent(provider[f]) => \A id \in TypesOf(f) : SameFrames(tags, tags', id)
          /\ (Absent(provider["category"]) /\ tpc' = "done") =>
                /\ FramesOf(tags', "TCON") = {KeyColon("TCON")}
                /\ tags'[KeyColon("TCON")].text = <<"Podcast">>
                /\ SameFrames(tags, tags', "TCAT")]_vars

C12_Witness ==
    /\ audiometa = "MP3" /\ tpc = "done"
    /\ Absent(provider["category"])
    /\ tags[KeyColon("TCON")].text = <<"Podcast">>
    /\ \E f \in FieldSet \ {"category"} :
          /\ Absent(provider[f])
          /\ \E k \in DOMAIN tags : tags[k].id \in TypesOf(f) /\ tags[k].text = Stale
    /\ \E g \in FieldSet : Truth(provider[g])

\* C14: a true episode_art that is a URL is fetched by dl_blob exactly once and
\* the frame stored holds the fetched bytes; one that is bytes is stored as it
\* is, without a call of dl_blob, and fix_tags goes on to the other fields.
C14_ArtResolvedOrEmbedded ==
    (audiometa = "MP3" /\ tpc # "ready") =>
        /\ (provider["episode_art"].kind = "str" /\ Truth(provider["episode_art"])) =>
              /\ blobs = 1
              /\ tpc = "done" =>
                    tags[KeyColon("APIC")].text = <<"bytes of">> \o provider["episode_art"].v
        /\ (provider["episode_art"].kind = "bytes" /\ Truth(provider["episode_art"])) =>
              /\ blobs = 0
              /\ tpc # "UnboundLocalError"
              /\ KeyColon("APIC") \in DOMAIN tags
              /\ tags[KeyColon("APIC")].text = provider["episode_art"].v

\* C17: when an accessor of the provider raises, fix_tags does not return: the
\* exception (the accessor's own, unless the artwork stanza raised before it)
\* ends the invocation as a failure, with the destination never written and no
\* cache record stored.
C17_AccessorErrorFailsEntry ==
    (/\ audiometa = "MP3"
     /\ tpc # "ready"
     /\ \E f \in FieldSet : provider[f].kind = "raise")
    => /\ tpc \in {"NotImplementedError", "UnboundLocalError", "HTTPError", "AssertionError"}
       /\ Absent(provider["episode_art"]) => tpc \in {"NotImplementedError", "AssertionError"}
       /\ inv["main"].pc = "idle"
       /\ \A q \in Positions :
            fails[q] = 1 /\ files[DestAt(q)] = "none" /\ RecordAt(q) = Missing

C17_Witness ==
    /\ audiometa = "MP3" /\ tpc = "NotImplementedError"
    /\ \E f \in FieldSet : provider[f].kind = "raise"
    /\ \E k \in DOMAIN tags : tags[k].id # "PCST" /\ tags[k].text # Stale
    /\ \A q \in Positions : fails[q] = 1 /\ files[DestAt(q)] = "none" /\ RecordAt(q) = Missing

----------------------------------------------------------------------------
(* Single calls: Provider.__getitem__, Nightvale._num_title, the cache file *)

MaxTitle == 5       \* characters in an entry title
MaxIdent == 3       \* characters in a feed href or an entry id

\* What Provider.__init__ stores on the object (providers lines 12-14).
InstanceAttrs == {"feed", "entry", "tags"}

Obj(name) == [kind |-> "object", v |-> <<name>>]

\* Provider objects as getattr sees them: the instance attributes, and one
\* property for each canonical field - overridden to yield a value or None, left
\* at the base class's raise NotImplementedError, or failing with AttributeError
\* (a getter reading a field the entry lacks, as self.entry.subtitle does).
ProviderObjects ==
    {[a \in FieldSet \cup InstanceAttrs |->
        IF a \in InstanceAttrs THEN Obj(a)
        ELSE IF a = "episode_title" THEN x
        ELSE IF a = "summary" THEN y
        ELSE Raises] :
     x \in {PyStr(<<"from provider">>), None, Raises, AttrError},
     y \in {PyStr(<<"from provider">>), None, Raises, AttrError}}

\* The raw entry and the raw feed: dictionaries with some of these keys.
RawDicts(keys, v) == {[k \in K |-> PyStr(<<v>>)] : K \in SUBSET keys}

LookupKeys == {"episode_title", "summary", "tags", "title", "nosuch"}

GetItemCalls ==
    {[fn |-> "__getitem__", attrs |-> a, entry |-> e, feed |-> f, key |-> k] :
        a \in ProviderObjects,
        e \in RawDicts({"summary", "tags", "title"}, "from entry"),
        f \in RawDicts({"title", "tags"}, "from feed"),
        k \in LookupKeys}

\* Characters of a title: digits, whitespace (blank, line feed), hyphen, letter.
Digits == {"0", "2", "4"}
Spaces == {" ", "\n"}
TitleChars == Digits \cup Spaces \cup {"-", "C"}

Titles == UNION {[1..n -> TitleChars] : n \in 0..MaxTitle}

NumTitleCalls == {[fn |-> "_num_title", title |-> t] : t \in Titles}

AllIn(t, from, to, S) == \A k \in from..to : t[k] \in S

\* `(.+)$` on the rest of the string: one or more characters other than a line
\* feed, up to the end of the string or up to a line feed that ends it
DotPlusEnd(rest, m) ==
    /\ m >= 1
    /\ AllIn(rest, 1, m, TitleChars \ {"\n"})
    /\ \/ m = Len(rest)
       \/ m = Len(rest) - 1 /\ rest[Len(rest)] = "\n"

\* The ways `^(\d+)\s*-\s*(.+)$` can match t: n digits, a whitespace, the hyphen,
\* b whitespace, m characters of group 2
Matches(t) ==
    {x \in (1..Len(t)) \X (0..Len(t)) \X (0..Len(t)) \X (1..Len(t)) :
        /\ x[1] + x[2] + x[3] + 1 + x[4] <= Len(t)
        /\ AllIn(t, 1, x[1], Digits)
        /\ AllIn(t, x[1] + 1, x[1] + x[2], Spaces)
        /\ t[x[1] + x[2] + 1] = "-"
        /\ AllIn(t, x[1] + x[2] + 2, x[1] + x[2] + 1 + x[3], Spaces)
        /\ DotPlusEnd(SubSeq(t, x[1] + x[2] + x[3] + 2, Len(t)), x[4])}

\* Every quantifier is greedy: the engine tries the longest repetition first and
\* gives characters back only while the rest of the pattern fails.
Greedier(x, y) ==
    \/ x[1] > y[1]
    \/ x[1] = y[1] /\ x[2] > y[2]
    \/ x[1] = y[1] /\ x[2] = y[2] /\ x[3] > y[3]
    \/ x[1] = y[1] /\ x[2] = y[2] /\ x[3] = y[3] /\ x[4] >= y[4]

\* re.search(r'^(\d+)\s*-\s*(.+)$', title): the groups, or None
re_search(t) ==
    IF Matches(t) = {} THEN None
    ELSE LET x == CHOOSE y \in Matches(t) : \A z \in Matches(t) : Greedier(y, z)
         IN  [kind |-> "match",
              g1 |-> SubSeq(t, 1, x[1]),
              g2 |-> SubSeq(t, x[1] + x[2] + x[3] + 2, x[1] + x[2] + x[3] + 1 + x[4])]

DigitValue(c) == CHOOSE d \in 0..9 : DigitChars[d + 1] = c

RECURSIVE int(_)
\* int(s) for a string of decimal digits
int(ds) ==
    IF Len(ds) = 1 THEN DigitValue(ds[1])
    ELSE 10 * int(SubSeq(ds, 1, Len(ds) - 1)) + DigitValue(ds[Len(ds)])

\* A mutant: the whole title is kept next to the number.
num_title_keeps_title(title) ==
    IF re_search(title).kind = "match"
    THEN <<int(re_search(title).g1), title>>
    ELSE <<0, title>>

\* Nightvale._num_title (providers lines 138-142)
num_title(title) ==
    IF re_search(title).kind = "match"
    THEN <<int(re_search(title).g1), re_search(title).g2>>
    ELSE <<0, title>>

\* Feed hrefs and entry ids as strings of characters, '#' among them.
Idents == UNION {[1..n -> {"a", "#"}] : n \in 1..MaxIdent}

CacheKeyCalls ==
    {[fn |-> "cache_key", a |-> <<h1, i1>>, b |-> <<h2, i2>>] :
        h1 \in Idents, i1 \in Idents, h2 \in Idents, i2 \in Idents}

Pending == [exc |-> "pending", val |-> <<>>]

InitCalls ==
    /\ InitRun
    /\ feedfile = <<>>
    /\ TagsOff
    /\ call \in GetItemCalls \cup NumTitleCalls \cup CacheKeyCalls
    /\ ret = Pending
    /\ drv = <<>>

others == <<feedfile, feeds, run, prevClean, tagvars, call, drv, mainpc, fi, ei, inv, queue,
            cache, files, outcome, interrupted, ghosts>>

\* provider[key]
GetItem ==
    /\ call.fn = "__getitem__"
    /\ ret.exc = "pending"
    /\ ret' = getitem(call.attrs, call.entry, call.feed, call.key)
    /\ UNCHANGED others

\* provider._num_title() for an entry with that title
NumTitle ==
    /\ call.fn = "_num_title"
    /\ ret.exc = "pending"
    /\ ret' = Returned(num_title(call.title))
    /\ UNCHANGED others

\* lines 64-65 and open_cache's filename, for two (feed.href, entry.id) pairs
Fingerprint ==
    /\ call.fn = "cache_key"
    /\ ret.exc = "pending"
    /\ ret' = Returned(<<CacheFile(cache_key(call.a[1], call.a[2])),
                         CacheFile(cache_key(call.b[1], call.b[2]))>>)
    /\ UNCHANGED others

NextCalls ==
    \/ GetItem
    \/ NumTitle
    \/ Fingerprint

SpecCalls == InitCalls /\ [][NextCalls]_vars

----------------------------------------------------------------------------
(* Properties of the single calls *)

\* C13: provider[key] is the provider's canonical field of that name when it
\* has one (fields whose getter raises are left aside here), else the raw
\* entry's field of that name, else the raw feed's, else KeyError.
C13_LookupOrder ==
    (/\ call.fn = "__getitem__"
     /\ ret.exc # "pending"
     /\ call.key \in FieldSet => call.attrs[call.key].kind \notin {"raise", "attribute_error"})
    => IF call.key \in FieldSet
       THEN ret.exc = "none" /\ ret.val = call.attrs[call.key]
       ELSE IF call.key \in DOMAIN call.entry
       THEN ret.exc = "none" /\ ret.val = call.entry[call.key]
       ELSE IF call.key \in DOMAIN call.feed
       THEN ret.exc = "none" /\ ret.val = call.feed[call.key]
       ELSE ret.exc = "KeyError"

\* Titles made of n leading digits, a whitespace, a hyphen, b whitespace and a
\* remainder that is not empty.
Shaped(t) ==
    {x \in (1..Len(t)) \X (0..Len(t)) \X (0..Len(t)) :
        /\ x[1] + x[2] + x[3] + 1 < Len(t)
        /\ AllIn(t, 1, x[1], Digits)
        /\ AllIn(t, x[1] + 1, x[1] + x[2], Spaces)
        /\ t[x[1] + x[2] + 1] = "-"
        /\ AllIn(t, x[1] + x[2] + 2, x[1] + x[2] + 1 + x[3], Spaces)}

Remainder(t, x) == SubSeq(t, x[1] + x[2] + x[3] + 2, Len(t))

\* The remainder without the line feed that may end it.
Body(r) == IF r[Len(r)] = "\n" THEN SubSeq(r, 1, Len(r) - 1) ELSE r

OneLine(r) == Body(r) # <<>> /\ AllIn(Body(r), 1, Len(Body(r)), TitleChars \ {"\n"})

\* C15 as stated: a title of digits, optional whitespace, a hyphen, optional
\* whitespace and a non-empty remainder gives (int(digits), remainder), for
\* some way of reading the optional whitespace; any other title gives
\* (0, title).
C15_NumTitleSplitAsStated ==
    (call.fn = "_num_title" /\ ret.exc = "none") =>
        IF Shaped(call.title) # {}
        THEN \E x \in Shaped(call.title) :
                ret.val = <<int(SubSeq(call.title, 1, x[1])), Remainder(call.title, x)>>
        ELSE ret.val = <<0, call.title>>

\* C15, amended: the same for a remainder that is a single line (one line feed
\* may end the title and is dropped), the whitespace after the hyphen counting
\* as remainder only when nothing else would be left of it; every other title,
\* one whose remainder spans several lines included, gives (0, title).
C15_NumTitleSplit ==
    (call.fn = "_num_title" /\ ret.exc = "none") =>
        LET S == {x \in Shaped(call.title) : OneLine(Remainder(call.title, x))}
        IN  IF S # {}
            THEN LET x == CHOOSE y \in S : \A z \in S : y[3] >= z[3]
                 IN  ret.val = <<int(SubSeq(call.title, 1, x[1])), Body(Remainder(call.title, x))>>
            ELSE ret.val = <<0, call.title>>

C15_Witness ==
    /\ call.fn = "_num_title" /\ ret.exc = "none"
    /\ call.title = <<"4", "2", " ", "-", "C">>
    /\ ret.val = <<42, <<"C">>>>

\* C16: two (feed href, entry id) pairs that differ in the href or in the id
\* get different cache files.
C16_FingerprintUnique ==
    (call.fn = "cache_key" /\ ret.exc = "none") =>
        (call.a # call.b => ret.val[1] # ret.val[2])

----------------------------------------------------------------------------
(* tagging.py: the driver loop *)

MaxUrls == 2        \* feed urls in the list the loop runs over
MaxListed == 4      \* entries a feed lists

\* tagging.py line 12 sets maxLimit = 1000; the loop is the same for every
\* value, and a small one lets a feed list more new entries than the limit.
maxLimit == 2

TagUrls == {"url1", "url2"}

\* Entry ids, as feedparser gives them in entry['id'].
EntryIds == <<"a", "b", "c", "d", "e", "f">>

\* The ids of the entries a feed lists, newest first.
Listed == SubSeq(EntryIds, 1, MaxListed)

\* What cache.json can hold for a url from earlier runs.
Earlier == {<<>>, <<"b">>, <<"a", "b">>}

\* cache.json: some urls, each with the ids added for it (lines 77-80)
CacheJsons ==
    UNION {[K -> Earlier] : K \in SUBSET TagUrls}

Ids(list) == {list[k] : k \in DOMAIN list}

\* The (url, id) pairs a cache.json holds: the entries whose make_file
\* completed in an earlier run.
Completed(c) == {<<u, id>> \in (DOMAIN c) \X Ids(EntryIds) : id \in Ids(c[u])}

\* drv.made, drv.makes and drv.skipped record the run: the (url, id) pairs whose
\* make_file has completed, the calls of make_file, and the entries skipped.
InitDriver ==
    /\ InitRun
    /\ feedfile = <<>>
    /\ TagsOff
    /\ call = <<>>
    /\ ret = <<>>
    /\ \E us \in SeqsUpTo(TagUrls, MaxUrls), n \in 0..MaxListed, c \in CacheJsons :
          drv = [pc |-> "url", urls |-> us, ui |-> 1,
                 entries |-> SubSeq(Listed, 1, n), ei |-> 0, limit |-> 0,
                 cache |-> c, disk |-> c, added |-> 0,
                 made |-> Completed(c), makes |-> 0, skipped |-> 0]

outside == <<feedfile, feeds, run, prevClean, tagvars, call, ret, mainpc, fi, ei, inv, queue,
             cache, files, outcome, interrupted, ghosts>>


\* lines 84-91: the next url; limit = 0; an empty list for a url not in cache;
\* get_entries(url)
NextUrl ==
    /\ drv.pc = "url"
    /\ drv.ui <= Len(drv.urls)
    /\ drv' = [drv EXCEPT
                 !.pc = "entry", !.ei = 1, !.limit = 0, !.added = 0,
                 !.cache = [u \in DOMAIN drv.cache \cup {drv.urls[drv.ui]} |->
                              IF u \in DOMAIN drv.cache THEN drv.cache[u] ELSE <<>>]]
    /\ UNCHANGED outside

\* line 84: no url is left
UrlsDone ==
    /\ drv.pc = "url"
    /\ drv.ui > Len(drv.urls)
    /\ drv' = [drv EXCEPT !.pc = "done"]
    /\ UNCHANGED outside

\* lines 93-96: an entry whose id is in cache[url] is skipped
SkipEntry ==
    /\ drv.pc = "entry"
    /\ drv.ei <= Len(drv.entries)
    /\ drv.entries[drv.ei] \in Ids(drv.cache[drv.urls[drv.ui]])
    /\ drv' = [drv EXCEPT !.ei = @ + 1, !.skipped = @ + 1]
    /\ UNCHANGED outside

\* What a call of make_file (lines 20-47) can do: return, raise an exception
\* that line 103 catches, or raise one it does not catch (KeyboardInterrupt and
\* SystemExit are not subclasses of Exception).
MakeFileOutcomes == {"returned", "Exception", "KeyboardInterrupt"}

\* lines 97-109 without the del of line 104
AddEntry_keeps_failed ==
    /\ drv.pc = "entry"
    /\ drv.ei <= Len(drv.entries)
    /\ drv.entries[drv.ei] \notin Ids(drv.cache[drv.urls[drv.ui]])
    /\ \E out \in MakeFileOutcomes :
        LET url == drv.urls[drv.ui]
            appended == Append(drv.cache[url], drv.entries[drv.ei])
            limit == IF out = "returned" THEN drv.limit + 1 ELSE (drv.limit + 1) - 1
            cache2 == [drv.cache EXCEPT ![url] = appended]
        IN  IF out = "KeyboardInterrupt"
            THEN drv' = [drv EXCEPT !.cache = cache2, !.limit = @ + 1,
                                    !.makes = @ + 1, !.pc = "dead"]
            ELSE drv' = [drv EXCEPT
                           !.cache = cache2,
                           !.disk = cache2,
                           !.limit = limit,
                           !.added = IF out = "returned" THEN @ + 1 ELSE @,
                           !.made = IF out = "returned"
                                    THEN @ \cup {<<url, drv.entries[drv.ei]>>} ELSE @,
                           !.makes = @ + 1,
                           !.ei = IF limit > maxLimit THEN @ ELSE @ + 1,
                           !.pc = IF limit > maxLimit THEN "url" ELSE "entry",
                           !.ui = IF limit > maxLimit THEN @ + 1 ELSE @]
    /\ UNCHANGED outside

\* lines 97-109: count the entry, append its id, make_file; when it raises an
\* Exception take the id off again and uncount; write cache.json; leave the
\* loop once limit exceeds maxLimit.  An exception line 103 does not catch
\* ends the program at line 102: nothing is taken off and nothing is written.
AddEntry ==
    /\ drv.pc = "entry"
    /\ drv.ei <= Len(drv.entries)
    /\ drv.entries[drv.ei] \notin Ids(drv.cache[drv.urls[drv.ui]])
    /\ \E out \in MakeFileOutcomes :
        LET url == drv.urls[drv.ui]
            appended == Append(drv.cache[url], drv.entries[drv.ei])
            kept == IF out = "returned" THEN appended
                    ELSE SubSeq(appended, 1, Len(appended) - 1)
            limit == IF out = "returned" THEN drv.limit + 1 ELSE (drv.limit + 1) - 1
            cache2 == [drv.cache EXCEPT ![url] = kept]
        IN  IF out = "KeyboardInterrupt"
            THEN drv' = [drv EXCEPT !.cache = [drv.cache EXCEPT ![url] = appended],
                                    !.limit = @ + 1, !.makes = @ + 1, !.pc = "dead"]
            ELSE drv' = [drv EXCEPT
                           !.cache = cache2,
                           !.disk = cache2,
                           !.limit = limit,
                           !.added = IF out = "returned" THEN @ + 1 ELSE @,
                           !.made = IF out = "returned"
                                    THEN @ \cup {<<url, drv.entries[drv.ei]>>} ELSE @,
                           !.makes = @ + 1,
                           !.ei = IF limit > maxLimit THEN @ ELSE @ + 1,
                           !.pc = IF limit > maxLimit THEN "url" ELSE "entry",
                           !.ui = IF limit > maxLimit THEN @ + 1 ELSE @]
    /\ UNCHANGED outside

\* line 93: the entries of this url are exhausted
EntriesEnd ==
    /\ drv.pc = "entry"
    /\ drv.ei > Len(drv.entries)
    /\ drv' = [drv EXCEPT !.pc = "url", !.ui = @ + 1]
    /\ UNCHANGED outside

NextDriver ==
    \/ NextUrl
    \/ UrlsDone
    \/ SkipEntry
    \/ AddEntry
    \/ EntriesEnd

SpecDriver == InitDriver /\ [][NextDriver]_vars

\* C20: for each url of the loop, the entries newly added to the cache in this
\* run are at most maxLimit, and limit counts exactly them (an entry whose
\* make_file raised is not counted).
C20_AtMostMaxLimitAdded ==
    drv.pc \in {"url", "entry", "done"} =>
        /\ drv.limit = drv.added
        /\ drv.added <= maxLimit

\* C21: whenever cache.json has been written it lists, for each url, exactly
\* the ids whose make_file has completed without raising, in this run or an
\* earlier one, each once; a call of make_file that raises leaves cache[url] as
\* it was before the entry was attempted, and that is what is written; and an
\* entry whose id is already in cache[url] is passed over with no call of
\* make_file and no change to the cache.
PersistedIsCompleted ==
    /\ drv.made = Completed(drv.disk)
    /\ \A u \in DOMAIN drv.disk : Len(drv.disk[u]) = Cardinality(Ids(drv.disk[u]))

AtEntry == drv.pc = "entry" /\ drv.ei <= Len(drv.entries)

RaisedRolledBack ==
    (drv'.makes = drv.makes + 1 /\ drv'.made = drv.made) =>
        IF drv'.pc = "dead"
        THEN drv'.disk = drv.disk
        ELSE drv'.cache = drv.cache /\ drv'.disk = drv.cache

KnownIdSkipped ==
    (AtEntry /\ drv.entries[drv.ei] \in Ids(drv.cache[drv.urls[drv.ui]])) =>
        /\ drv'.makes = drv.makes
        /\ drv'.cache = drv.cache
        /\ drv'.disk = drv.disk
        /\ drv'.ei = drv.ei + 1

C21_PersistedIsCompleted ==
    /\ []PersistedIsCompleted
    /\ [][RaisedRolledBack /\ KnownIdSkipped]_vars

\* make_file has raised for one entry and completed for another, an entry
\* known from an earlier run has been skipped, and the loop has ended.
C21_Witness ==
    /\ drv.pc = "done"
    /\ Len(drv.urls) = 1
    /\ drv.skipped >= 1
    /\ drv.added >= 1
    /\ drv.makes > drv.added
    /\ drv.cache = drv.disk

====
